---------------------------- MODULE Spec2Model ----------------------------
(***************************************************************************)
(* A model of moment-recur-ts: the Recur coordinator (rules, exceptions,   *)
(* start/end/from window, enumeration), the Calendar rule and the Interval *)
(* rule, over a model of the civil-calendar primitive (moment) they use.   *)
(*                                                                         *)
(* A moment is an integer 2*dayNumber + eod: dayNumber counts days from    *)
(* 1970-01-01, eod = 0 is 00:00:00.000 and eod = 1 is 23:59:59.999.  These *)
(* are the only times of day the program can produce: dateOnly() and       *)
(* startOf() give the first, endOf() gives the second, and add/subtract of *)
(* days, weeks, months and years keep the time of day.  Comparing moments  *)
(* (isSame, isBefore, isAfter, diff's sign) is comparing these integers.   *)
(***************************************************************************)
EXTENDS Integers, Sequences, FiniteSets, TLC

(***************************************************************************)
(* The civil calendar (proleptic Gregorian, UTC, locale "en": weeks start  *)
(* on Sunday and week 1 of a year is the week that contains January 1st).  *)
(***************************************************************************)

\* no date (null / undefined)
NoDate == 0 - 1

\* the signal of a rule search that crossed its limit (RangeError)
RangeErr == 0 - 2

\* the signal of a TypeError thrown by a search
TypeErr == 0 - 3

\* the signal of a search that is still running after MaxRounds rounds
Diverged == 0 - 4

Midnight(d) == 2 * d

DayNum(m) == m \div 2

Eod(m) == m % 2

\* day number of the civil date y-(mo+1)-d, month 0..11 as in moment: the
\* years are counted from March 1st, in eras of 400 years
DayOfEra(yoe, doy) == yoe * 365 + yoe \div 4 - yoe \div 100 + doy

DaysFromEra(yy, doy) == (yy \div 400) * 146097 + DayOfEra(yy % 400, doy) - 719468

DaysFromCivil(y, mo, d) ==
  DaysFromEra(IF mo <= 1 THEN y - 1 ELSE y,
              (153 * (IF mo > 1 THEN mo - 2 ELSE mo + 10) + 2) \div 5 + d - 1)

\* the civil date <<year, month 0..11, date 1..31>> of a day number
YearOfEra(doe) == (doe - doe \div 1460 + doe \div 36524 - doe \div 146096) \div 365

CivilFromMarch(y, doy, mp) ==
  <<IF mp < 10 THEN y ELSE y + 1,
    IF mp < 10 THEN mp + 2 ELSE mp - 10,
    doy - (153 * mp + 2) \div 5 + 1>>

CivilFromYear(y, doy) == CivilFromMarch(y, doy, (5 * doy + 2) \div 153)

CivilFromEra(era, doe, yoe) ==
  CivilFromYear(yoe + era * 400, doe - (365 * yoe + yoe \div 4 - yoe \div 100))

CivilFromDoe(era, doe) == CivilFromEra(era, doe, YearOfEra(doe))

CivilFromDays(z) == CivilFromDoe((z + 719468) \div 146097, (z + 719468) % 146097)

\* the calendar is tabulated for 2013-01-01 .. 2023-12-31, which holds every
\* date a search from the input dates can reach
CalendarDays == DaysFromCivil(2013, 0, 1)..DaysFromCivil(2023, 11, 31)

CivilTable == [z \in CalendarDays |-> CivilFromDays(z)]

\* the day number of the first day of month ym % 12 of year ym \div 12
MonthStartTable ==
  [ym \in (2013 * 12)..(2024 * 12) |-> DaysFromCivil(ym \div 12, ym % 12, 1)]

\* getters: year(), month() 0..11, date() 1..31
Year(m) == CivilTable[DayNum(m)][1]

Month(m) == CivilTable[DayNum(m)][2]

Date(m) == CivilTable[DayNum(m)][3]

\* months counted from year 0, the index of MonthStartTable
MonthIndex(m) == Year(m) * 12 + Month(m)

\* day(): day of week, 0 = Sunday (1970-01-01 was a Thursday)
Day(m) == (DayNum(m) + 4) % 7

\* moment built from a civil date and a time of day
MakeMoment(y, mo, d, eod) == 2 * DaysFromCivil(y, mo, d) + eod

AddDays(m, n) == m + 2 * n

AddWeeks(m, n) == m + 14 * n

\* day d of the month ym, clamped to the last day of that month
ClampedDay(ym, d) ==
  IF MonthStartTable[ym] + d - 1 < MonthStartTable[ym + 1]
  THEN MonthStartTable[ym] + d - 1
  ELSE MonthStartTable[ym + 1] - 1

\* add(n, 'months'): the day of month is clamped to the target month
AddMonths(m, n) == Midnight(ClampedDay(MonthIndex(m) + n, Date(m))) + Eod(m)

AddYears(m, n) == AddMonths(m, 12 * n)

\* add(n, unit) for unit in day, week, month, year
Add(m, n, unit) ==
  CASE unit = "day"   -> AddDays(m, n)
    [] unit = "week"  -> AddWeeks(m, n)
    [] unit = "month" -> AddMonths(m, n)
    [] unit = "year"  -> AddYears(m, n)

StartOf(m, unit) ==
  CASE unit = "day"   -> Midnight(DayNum(m))
    [] unit = "week"  -> Midnight(DayNum(m) - Day(m))
    [] unit = "month" -> Midnight(MonthStartTable[MonthIndex(m)])
    [] unit = "year"  -> Midnight(MonthStartTable[Year(m) * 12])

EndOf(m, unit) ==
  CASE unit = "day"   -> Midnight(DayNum(m)) + 1
    [] unit = "week"  -> Midnight(DayNum(m) - Day(m) + 6) + 1
    [] unit = "month" -> Midnight(MonthStartTable[MonthIndex(m) + 1] - 1) + 1
    [] unit = "year"  -> Midnight(MonthStartTable[Year(m) * 12 + 12] - 1) + 1

\* setters: day(u); date(u), which overflows into the next month as
\* Date.setUTCDate does; month(u), which clamps the day of month
SetDay(m, u) == AddDays(m, u - Day(m))

SetDate(m, u) == AddDays(m, u - Date(m))

SetMonth(m, u) == Midnight(ClampedDay(Year(m) * 12 + u, Date(m))) + Eod(m)

\* week(): locale week of the year (dow = 0, doy = 6), for the day number
\* z of a year that starts on day number jan1, the next on nextJan1: the
\* first week starts on the Sunday on or before January 1st, and the days
\* of the last, partial week belong to week 1 of the next year
FirstWeekStart(jan1) == jan1 - ((jan1 + 4) % 7)

WeekWithin(week, weeksInYear) ==
  IF week > weeksInYear THEN week - weeksInYear ELSE week

WeekOfYear(z, jan1, nextJan1) ==
  WeekWithin((z - FirstWeekStart(jan1)) \div 7 + 1,
             (FirstWeekStart(nextJan1) - FirstWeekStart(jan1)) \div 7)

WeekInYear(z, y) == WeekOfYear(z, MonthStartTable[y * 12], MonthStartTable[y * 12 + 12])

WeekTable == [z \in CalendarDays |-> WeekInYear(z, CivilTable[z][1])]

Week(m) == WeekTable[DayNum(m)]

SetWeek(m, u) == AddDays(m, (u - Week(m)) * 7)

(***************************************************************************)
(* moment.fn.monthWeek and moment.fn.monthWeekByDay                        *)
(***************************************************************************)

\* day0.diff(week0, 'weeks') for the first day of this week and the first
\* day of the first week of this month
MonthWeek(m) ==
  (DayNum(StartOf(m, "week")) - DayNum(StartOf(StartOf(m, "month"), "week"))) \div 7

SetMonthWeek(m, week) == AddWeeks(m, week - MonthWeek(m))

MonthWeekByDay(m) == (Date(m) - 1) \div 7

SetMonthWeekByDay(m, week) == AddWeeks(m, week - MonthWeekByDay(m))

(***************************************************************************)
(* Rules.  A rule is a record [measure, units, anchor]: units is the       *)
(* normalized unit list, anchor is the start date an Interval rule was     *)
(* built with (NoDate for a Calendar rule).                                *)
(***************************************************************************)

IntervalMeasures == {"days", "weeks", "months", "years"}

CalendarMeasures ==
  {"daysOfWeek", "daysOfMonth", "weeksOfMonth", "weeksOfMonthByDay",
   "weeksOfYear", "monthsOfYear"}

MeasureSingleToPlural ==
  [day |-> "days", week |-> "weeks", month |-> "months", year |-> "years",
   dayOfWeek |-> "daysOfWeek", dayOfMonth |-> "daysOfMonth",
   weekOfMonth |-> "weeksOfMonth", weekOfMonthByDay |-> "weeksOfMonthByDay",
   weekOfYear |-> "weeksOfYear", monthOfYear |-> "monthsOfYear"]

\* the plural measure name, or "invalid" where the code throws
NormalizeMeasure(measure) ==
  IF measure \in DOMAIN MeasureSingleToPlural THEN MeasureSingleToPlural[measure]
  ELSE IF \E key \in DOMAIN MeasureSingleToPlural : MeasureSingleToPlural[key] = measure
       THEN measure
       ELSE "invalid"

\* Calendar.ranges
Ranges ==
  [daysOfWeek        |-> [period |-> "day",   range |-> "week",  low |-> 0, high |-> 6],
   daysOfMonth       |-> [period |-> "day",   range |-> "month", low |-> 1, high |-> 31],
   weeksOfMonth      |-> [period |-> "week",  range |-> "month", low |-> 0, high |-> 4],
   weeksOfMonthByDay |-> [period |-> "week",  range |-> "month", low |-> 0, high |-> 4],
   weeksOfYear       |-> [period |-> "week",  range |-> "year",  low |-> 1, high |-> 53],
   monthsOfYear      |-> [period |-> "month", range |-> "year",  low |-> 0, high |-> 11]]

SortUnits(units) == SortSeq(units, LAMBDA a, b : a < b)

\* a number that is not an integer: n + 1/2 is written Half(n), above every
\* integer the model uses
Half(n) == 1000 + n

\* Number.isInteger
IsInteger(x) == x < 500

\* an integer inside the measure's range, or -1
UnitInRange(measure, x) ==
  /\ IsInteger(x)
  /\ (x >= Ranges[measure].low /\ x <= Ranges[measure].high) \/ x = 0 - 1

\* the first unit the map callback throws on
FirstBad(measure, units) ==
  CHOOSE i \in 1..Len(units) :
    /\ ~UnitInRange(measure, units[i])
    /\ \A j \in 1..(i - 1) : UnitInRange(measure, units[j])

\* normalizeUnits without the closing sort
CalendarNormalizeUnitsAsGiven(measure, units) ==
  IF \E i \in 1..Len(units) : ~UnitInRange(measure, units[i])
  THEN [err |-> IF IsInteger(units[FirstBad(measure, units)])
                THEN "OutOfRange" ELSE "InvalidUnit",
        units |-> <<>>]
  ELSE [err |-> "none", units |-> units]

\* Calendar.normalizeUnits on numeric input: the sorted units, or the
\* error it throws
CalendarNormalizeUnits(measure, units) ==
  IF \E i \in 1..Len(units) : ~UnitInRange(measure, units[i])
  THEN [err |-> IF IsInteger(units[FirstBad(measure, units)])
                THEN "OutOfRange" ELSE "InvalidUnit",
        units |-> <<>>]
  ELSE [err |-> "none", units |-> SortUnits(units)]

\* Interval constructor: positive units, in the order given
IntervalNormalizeUnits(units) ==
  IF \E i \in 1..Len(units) : units[i] <= 0 \/ ~IsInteger(units[i])
  THEN [err |-> "InvalidUnit", units |-> <<>>]
  ELSE [err |-> "none", units |-> units]

\* Calendar.periodUnit, getter
PeriodUnit(measure, m) ==
  CASE measure = "daysOfWeek"        -> Day(m)
    [] measure = "daysOfMonth"       -> Date(m)
    [] measure = "weeksOfMonth"      -> MonthWeek(m)
    [] measure = "weeksOfMonthByDay" -> MonthWeekByDay(m)
    [] measure = "weeksOfYear"       -> Week(m)
    [] measure = "monthsOfYear"      -> Month(m)

\* Calendar.periodUnit, setter
SetPeriodUnit(measure, m, unit) ==
  CASE measure = "daysOfWeek"        -> SetDay(m, unit)
    [] measure = "daysOfMonth"       -> SetDate(m, unit)
    [] measure = "weeksOfMonth"      -> SetMonthWeek(m, unit)
    [] measure = "weeksOfMonthByDay" -> SetMonthWeekByDay(m, unit)
    [] measure = "weeksOfYear"       -> SetWeek(m, unit)
    [] measure = "monthsOfYear"      -> SetMonth(m, unit)

InUnits(units, u) == \E i \in 1..Len(units) : units[i] = u

\* match by the listed units only
CalendarMatchUnitListed(rule, m, unit) == InUnits(rule.units, unit)

\* the two tests of Calendar.match on the period unit of the date
CalendarMatchUnit(rule, m, unit) ==
  \/ InUnits(rule.units, unit)
  \/ /\ Len(rule.units) > 0
     /\ rule.units[1] = 0 - 1
     /\ unit = PeriodUnit(rule.measure, EndOf(m, Ranges[rule.measure].range))

CalendarMatch(rule, m) == CalendarMatchUnit(rule, m, PeriodUnit(rule.measure, m))

\* the units with -1 replaced by the period unit of the end of date's range
MappedUnits(rule, date) ==
  [i \in 1..Len(rule.units) |->
     IF rule.units[i] = 0 - 1
     THEN PeriodUnit(rule.measure, EndOf(date, Ranges[rule.measure].range))
     ELSE rule.units[i]]

\* mapped.find(unit => unit > currentUnit); -1 stands for undefined
FindAbove(mapped, currentUnit) ==
  IF \A i \in 1..Len(mapped) : mapped[i] <= currentUnit THEN 0 - 1
  ELSE mapped[CHOOSE i \in 1..Len(mapped) :
                /\ mapped[i] > currentUnit
                /\ \A j \in 1..(i - 1) : mapped[j] <= currentUnit]

\* mapped.reverse().find(unit => unit < currentUnit); -1 stands for undefined
FindBelow(mapped, currentUnit) ==
  IF \A i \in 1..Len(mapped) : mapped[i] >= currentUnit THEN 0 - 1
  ELSE mapped[CHOOSE i \in 1..Len(mapped) :
                /\ mapped[i] < currentUnit
                /\ \A j \in (i + 1)..Len(mapped) : mapped[j] >= currentUnit]

\* Calendar.nextPeriod once nextUnit is found; NoDate stands for undefined
NextPeriodTo(rule, date, nextUnit) ==
  IF nextUnit # 0 - 1
  THEN StartOf(SetPeriodUnit(rule.measure, date, nextUnit), Ranges[rule.measure].period)
  ELSE IF rule.measure = "weeksOfYear" /\ InUnits(rule.units, 1)
       THEN StartOf(EndOf(date, "year"), "week")
       ELSE NoDate

NextPeriod(rule, date) ==
  NextPeriodTo(rule, date,
               FindAbove(MappedUnits(rule, date), PeriodUnit(rule.measure, date)))

\* currentUnit of Calendar.previousPeriod
PreviousCurrentUnit(rule, date) ==
  IF rule.measure = "weeksOfYear" /\ Month(date) = 11 /\ Week(date) = 1
  THEN 53 ELSE PeriodUnit(rule.measure, date)

\* Calendar.previousPeriod once currentUnit and nextUnit are found
PreviousPeriodTo(rule, date, currentUnit, nextUnit) ==
  IF nextUnit # 0 - 1
  THEN EndOf(SetPeriodUnit(rule.measure,
                           IF rule.measure = "weeksOfYear" /\ currentUnit = 53
                           THEN SetWeek(date, 0) ELSE date,
                           nextUnit),
             Ranges[rule.measure].period)
  ELSE IF rule.measure = "weeksOfYear"
          /\ \E i \in 1..Len(rule.units) : 52 >= rule.units[i] /\ rule.units[i] <= 53
       THEN EndOf(StartOf(date, "year"), "week")
       ELSE NoDate

PreviousPeriodFrom(rule, date, currentUnit) ==
  PreviousPeriodTo(rule, date, currentUnit,
                   FindBelow(MappedUnits(rule, date), currentUnit))

PreviousPeriod(rule, date) ==
  PreviousPeriodFrom(rule, date, PreviousCurrentUnit(rule, date))

IncrementRange(rule, date, count) ==
  StartOf(Add(date, count, Ranges[rule.measure].range), Ranges[rule.measure].range)

DecrementRange(rule, date, count) ==
  EndOf(Add(date, 0 - count, Ranges[rule.measure].range), Ranges[rule.measure].range)

IsLastDayOfPeriod(rule, date) ==
  IF rule.measure = "weeksOfMonthByDay"
  THEN MonthWeekByDay(date) # MonthWeekByDay(AddDays(date, 1))
  ELSE IF Ranges[rule.measure].period = "day" THEN TRUE
       ELSE date = EndOf(date, Ranges[rule.measure].period)

IsFirstDayOfPeriod(rule, date) ==
  IF rule.measure = "weeksOfMonthByDay"
  THEN MonthWeekByDay(date) # MonthWeekByDay(AddDays(date, 0 - 1))
  ELSE IF Ranges[rule.measure].period = "day" THEN TRUE
       ELSE date = StartOf(date, Ranges[rule.measure].period)

\* the while (true) loop of Calendar.next: one pass, given the result of
\* nextPeriod and the start of the next range
RECURSIVE CalendarNextLoop(_, _, _)
CalendarNextPass(rule, nextDate, bumped, limit) ==
  IF nextDate # NoDate THEN nextDate
  ELSE IF CalendarMatch(rule, bumped) THEN bumped
  ELSE IF bumped >= limit THEN RangeErr
  ELSE CalendarNextLoop(rule, bumped, limit)

CalendarNextLoop(rule, currentDate, limit) ==
  CalendarNextPass(rule, NextPeriod(rule, currentDate),
                   IncrementRange(rule, currentDate, 1), limit)

CalendarNext(rule, currentDateIn, limit) ==
  IF ~IsLastDayOfPeriod(rule, currentDateIn)
     /\ CalendarMatch(rule, AddDays(currentDateIn, 1))
  THEN AddDays(currentDateIn, 1)
  ELSE CalendarNextLoop(rule, currentDateIn, limit)

\* the while (true) loop of Calendar.previous
RECURSIVE CalendarPreviousLoop(_, _, _)
CalendarPreviousPass(rule, nextDate, bumped, limit) ==
  IF nextDate # NoDate THEN nextDate
  ELSE IF CalendarMatch(rule, bumped) THEN bumped
  ELSE IF bumped <= limit THEN RangeErr
  ELSE CalendarPreviousLoop(rule, bumped, limit)

CalendarPreviousLoop(rule, currentDate, limit) ==
  CalendarPreviousPass(rule, PreviousPeriod(rule, currentDate),
                       DecrementRange(rule, currentDate, 1), limit)

CalendarPrevious(rule, currentDateIn, limit) ==
  IF ~IsFirstDayOfPeriod(rule, currentDateIn)
     /\ CalendarMatch(rule, AddDays(currentDateIn, 0 - 1))
  THEN AddDays(currentDateIn, 0 - 1)
  ELSE CalendarPreviousLoop(rule, currentDateIn, limit)

(***************************************************************************)
(* Interval rule.  The elapsed count is measured in ticks (2 per day).     *)
(***************************************************************************)

\* ticks in one unit of an interval measure
MeasureTicks(measure) == IF measure = "weeks" THEN 14 ELSE 2

\* |anchor.diff(date)| in ticks
AbsTicks(rule, date) ==
  IF rule.anchor >= date THEN rule.anchor - date ELSE date - rule.anchor

\* months in one unit of an interval measure counted in months
MeasureMonths(measure) == IF measure = "years" THEN 12 ELSE 1

\* the whole months of anchor.diff(date, 'months', true): the difference of
\* the month fields
WholeMonths(anchor, date) == MonthIndex(date) - MonthIndex(anchor)

\* the precise diff in months is a whole number only when the date is the
\* anchor moved by the whole months
IsWholeMonths(anchor, date) == date = AddMonths(anchor, WholeMonths(anchor, date))

AbsMonths(anchor, date) ==
  IF WholeMonths(anchor, date) < 0 THEN 0 - WholeMonths(anchor, date)
  ELSE WholeMonths(anchor, date)

\* match that gives up after the first unit
IntervalMatchFirstUnit(rule, date) ==
  IF rule.measure = "days"
  THEN (AbsTicks(rule, date) \div 2) % rule.units[1] = 0
  ELSE IF rule.measure = "weeks"
  THEN AbsTicks(rule, date) % (MeasureTicks(rule.measure) * rule.units[1]) = 0
  ELSE /\ IsWholeMonths(rule.anchor, date)
       /\ AbsMonths(rule.anchor, date) % (MeasureMonths(rule.measure) * rule.units[1]) = 0

\* Interval.match: |anchor.diff(date, measure, precise)| % unit = 0 for
\* some unit; the diff is truncated to whole days for the days measure and
\* fractional for the others
IntervalMatch(rule, date) ==
  IF rule.measure = "days"
  THEN \E i \in 1..Len(rule.units) : (AbsTicks(rule, date) \div 2) % rule.units[i] = 0
  ELSE IF rule.measure = "weeks"
  THEN \E i \in 1..Len(rule.units) :
         AbsTicks(rule, date) % (MeasureTicks(rule.measure) * rule.units[i]) = 0
  ELSE /\ IsWholeMonths(rule.anchor, date)
       /\ \E i \in 1..Len(rule.units) :
            AbsMonths(rule.anchor, date) % (MeasureMonths(rule.measure) * rule.units[i]) = 0

\* smallest / largest element of a non-empty set of integers
MinOf(S) == CHOOSE x \in S : \A y \in S : x <= y

MaxOf(S) == CHOOSE x \in S : \A y \in S : x >= y

\* the elapsed count in months at current, rounded down and rounded up
FloorMonths(anchor, current) ==
  IF AddMonths(anchor, WholeMonths(anchor, current)) <= current
  THEN WholeMonths(anchor, current) ELSE WholeMonths(anchor, current) - 1

CeilMonths(anchor, current) ==
  IF AddMonths(anchor, WholeMonths(anchor, current)) >= current
  THEN WholeMonths(anchor, current) ELSE WholeMonths(anchor, current) + 1

\* the smallest multiple of p strictly greater than elapsed
MultipleAbove(elapsed, p) == ((elapsed \div p) + 1) * p

\* next that steps from current by each unit instead of counting from the anchor
IntervalNextFromCurrent(rule, current) ==
  IF rule.measure \in {"months", "years"}
  THEN MinOf({AddMonths(current, MeasureMonths(rule.measure) * rule.units[i]) :
              i \in 1..Len(rule.units)})
  ELSE MinOf({current + MeasureTicks(rule.measure) * rule.units[i] :
              i \in 1..Len(rule.units)})

\* Interval.next: per unit the smallest anchor-relative multiple strictly
\* greater than the elapsed count at current; the earliest of them
IntervalNext(rule, current) ==
  IF rule.measure \in {"months", "years"}
  THEN MinOf({AddMonths(rule.anchor,
                        MultipleAbove(FloorMonths(rule.anchor, current),
                                      MeasureMonths(rule.measure) * rule.units[i])) :
              i \in 1..Len(rule.units)})
  ELSE MinOf({rule.anchor
                + MultipleAbove(current - rule.anchor,
                                MeasureTicks(rule.measure) * rule.units[i]) :
              i \in 1..Len(rule.units)})

\* Interval.previous: per unit the largest anchor-relative multiple strictly
\* less than the elapsed count at current; the latest of them
IntervalPrevious(rule, current) ==
  IF rule.measure \in {"months", "years"}
  THEN MaxOf({AddMonths(rule.anchor,
                        0 - MultipleAbove(0 - CeilMonths(rule.anchor, current),
                                          MeasureMonths(rule.measure) * rule.units[i])) :
              i \in 1..Len(rule.units)})
  ELSE MaxOf({rule.anchor
                - MultipleAbove(rule.anchor - current,
                                MeasureTicks(rule.measure) * rule.units[i]) :
              i \in 1..Len(rule.units)})

\* dispatch over the rule kind
RuleMatch(rule, date) ==
  IF rule.measure \in IntervalMeasures THEN IntervalMatch(rule, date)
  ELSE CalendarMatch(rule, date)

RuleNext(rule, current, limit) ==
  IF rule.measure \in IntervalMeasures THEN IntervalNext(rule, current)
  ELSE CalendarNext(rule, current, limit)

RulePrevious(rule, current, limit) ==
  IF rule.measure \in IntervalMeasures THEN IntervalPrevious(rule, current)
  ELSE CalendarPrevious(rule, current, limit)


(***************************************************************************)
(* The Recur object.                                                       *)
(***************************************************************************)

VARIABLES
  start,          \* start date, NoDate when not set
  end,            \* end date, NoDate when not set
  from,           \* temporary from date, NoDate when not set
  rules,          \* the rule list
  exceptions,     \* the exception list
  units,          \* units staged by every(), kind "undef" when none
  measure,        \* measure staged by every(), "undefined" when none
  reversed,       \* direction flag of the iterator
  maximumYears,   \* search horizon in years
  call            \* the last call that returned a value or threw

vars ==
  <<start, end, from, rules, exceptions, units, measure, reversed,
    maximumYears, call>>

\* the fields every call except the query itself leaves alone
config == <<start, end, from, rules, exceptions, units, measure, maximumYears>>

\* ---- bounds of the model and the inputs the calls are given

\* the longest exception list except() builds
MaxExceptions == 2

\* the largest count asked of next(), previous() and a direct iteration
MaxCount == 2

\* the most rounds one findNextMatch / findPreviousMatch search is followed
MaxRounds == 30

\* the most dates one enumeration is followed for
MaxYield == 12

\* the largest search horizon, in years, an enumeration is run with
MaxHorizon == 1

\* private maximumYears = 1000
DefaultMaxYears == 1000

\* Monday 2018-01-29 and Monday 2018-02-05
Date1 == MakeMoment(2018, 0, 29, 0)

Date2 == MakeMoment(2018, 1, 5, 0)

\* dates given to the constructor, startDate, endDate, fromDate, except,
\* forget and matches
InputDates == {Date1, Date2}

\* 2018-01-29 23:59:59.999, a date given with a time of day
Date1Late == EndOf(Date1, "day")

\* the dates given to the configuration calls and to matches()
GivenDates == InputDates \cup {Date1Late}

Undef == [kind |-> "undef", v |-> <<>>]

Num(n) == [kind |-> "num", v |-> <<n>>]

Arr(a) == [kind |-> "arr", v |-> a]

RuleInput(u, m) == [units |-> u, measure |-> m]

\* (units, measure) pairs given to every()
EveryInputs ==
  {RuleInput(Num(2), "days"),
   RuleInput(Num(1), "daysOfWeek"),
   RuleInput(Num(1), "monthOfYear")}

\* measure names given to forget()
ForgetMeasures == {"day", "daysOfWeek"}

\* the rules option of the records given to the constructor
RuleOptions ==
  {<<>>,
   <<RuleInput(Num(2), "days")>>,
   <<RuleInput(Num(1), "daysOfWeek")>>,
   <<RuleInput(Arr(<<30>>), "daysOfMonth")>>,
   <<RuleInput(Num(1), "monthsOfYear"), RuleInput(Num(30), "daysOfMonth")>>,
   <<RuleInput(Num(3), "monthsOfYear"), RuleInput(Num(31), "daysOfMonth")>>,
   <<RuleInput(Num(1), "daysOfWeek"), RuleInput(Num(1), "monthsOfYear")>>}

\* the exceptions option of the records given to the constructor
ExceptionOptions == {<<>>, <<Date1>>, <<Date2>>}

\* ---- values of call

ErrDiverged == "Diverged"

\* date.format('YYYY-MM-DD'): the text, as its year, month and day numbers
Format(m) == <<Year(m), Month(m) + 1, Date(m)>>

\* moment(text).dateOnly()
ParseDateOnly(text) == MakeMoment(text[1], text[2] - 1, text[3], 0)

\* an options record with nothing in it; <<>> stands for an absent date
NoOptions == [start |-> <<>>, end |-> <<>>, exceptions |-> <<>>, rules |-> <<>>]

Idle ==
  [op |-> "none", n |-> 0, date |-> NoDate, ignore |-> FALSE,
   dates |-> <<>>, result |-> FALSE, err |-> "none", saved |-> NoOptions]

Threw(op, err) == [Idle EXCEPT !.op = op, !.err = err]

\* moment.fn.dateOnly
DateOnly(m) == Midnight(DayNum(m))

\* ---- Rule.factory

\* if (units): a non-zero number or any array
Truthy(u) == u.kind = "arr" \/ (u.kind = "num" /\ u.v[1] # 0)

\* Rule.factory(units, measure, start): [err, rule]
NoRule == [measure |-> "none", units |-> <<>>, anchor |-> NoDate]

Factory(u, m, anchor) ==
  LET normMeasure == NormalizeMeasure(m)
  IN IF normMeasure = "invalid" THEN [err |-> "InvalidMeasure", rule |-> NoRule]
     ELSE IF u.kind = "undef" THEN [err |-> "UnitsUndefined", rule |-> NoRule]
     ELSE IF normMeasure \in IntervalMeasures
          THEN IF anchor = NoDate THEN [err |-> "MissingAnchor", rule |-> NoRule]
               ELSE LET n == IntervalNormalizeUnits(u.v)
                    IN [err |-> n.err,
                        rule |-> IF n.err # "none" THEN NoRule
                                 ELSE [measure |-> normMeasure, units |-> n.units,
                                       anchor |-> anchor]]
          ELSE LET n == CalendarNormalizeUnits(normMeasure, u.v)
               IN [err |-> n.err,
                   rule |-> IF n.err # "none" THEN NoRule
                            ELSE [measure |-> normMeasure, units |-> n.units,
                                  anchor |-> NoDate]]

HasRule(m) == \E i \in 1..Len(rules) : rules[i].measure = NormalizeMeasure(m)

\* this.rules.filter(rule => rule.measure !== m)
WithoutMeasure(rs, m) == SelectSeq(rs, LAMBDA r : r.measure # m)

\* ---- matching

\* inRange with the start date itself left out
InRangeAfterStart(date) ==
  IF start # NoDate /\ date <= start THEN FALSE
  ELSE IF end # NoDate /\ date > end THEN FALSE
  ELSE TRUE

InRange(date) ==
  IF start # NoDate /\ date < start THEN FALSE
  ELSE IF end # NoDate /\ date > end THEN FALSE
  ELSE TRUE

IsException(date) == \E i \in 1..Len(exceptions) : exceptions[i] = date

MatchAllRules(date) == \A i \in 1..Len(rules) : RuleMatch(rules[i], date)

\* matches without the look at the exceptions
MatchesWithoutExceptions(dateToMatch, ignoreStartEnd) ==
  IF ~ignoreStartEnd /\ ~InRange(DateOnly(dateToMatch)) THEN FALSE
  ELSE MatchAllRules(DateOnly(dateToMatch))

\* Recur.matches on a valid date
Matches(dateToMatch, ignoreStartEnd) ==
  LET date == DateOnly(dateToMatch)
  IN IF ~ignoreStartEnd /\ ~InRange(date) THEN FALSE
     ELSE IF IsException(date) THEN FALSE
     ELSE IF ~MatchAllRules(date) THEN FALSE
     ELSE TRUE


\* ---- the search for the next / previous date all rules agree on

MaxDate(ds) == MaxOf({ds[i] : i \in 1..Len(ds)})

MinDate(ds) == MinOf({ds[i] : i \in 1..Len(ds)})

\* the end of one round of the while (!allRulesMatch) loop, given the dates
\* the rules returned and the date the round settles on: the date the round
\* ends with (or the error it throws), and whether it leaves the loop
RoundEnd(nextDates, settled) ==
  IF \E i \in 1..Len(nextDates) : nextDates[i] = RangeErr
  THEN [leave |-> TRUE, date |-> RangeErr]
  ELSE IF Len(nextDates) = 0 THEN [leave |-> TRUE, date |-> TypeErr]
  ELSE [leave |-> \A i \in 1..Len(nextDates) : nextDates[i] = settled,
        date  |-> settled]

\* nextDates.sort(...)[nextDates.length - 1] of findNextMatch
LatestOf(nextDates) == IF Len(nextDates) = 0 THEN TypeErr ELSE MaxDate(nextDates)

\* nextDates.sort(...)[nextDates.length - 1] of findPreviousMatch, which
\* sorts in descending order
EarliestOf(nextDates) == IF Len(nextDates) = 0 THEN TypeErr ELSE MinDate(nextDates)

\* rules.map(rule => rule.next(currentDate, limit))
NextDatesOf(current, limit) ==
  [i \in 1..Len(rules) |-> RuleNext(rules[i], current, limit)]

\* rules.map(rule => rule.previous(currentDate, limit))
PreviousDatesOf(current, limit) ==
  [i \in 1..Len(rules) |-> RulePrevious(rules[i], current, limit)]

\* one round of the loop of findNextMatch on the rule results
FindNextSettle(nextDates) == RoundEnd(nextDates, LatestOf(nextDates))

FindNextRound(nextDate, limit) ==
  FindNextSettle(NextDatesOf(AddDays(nextDate, 0 - 1), limit))

\* the loop, from the date a round starts with
RECURSIVE FindNextLoop(_, _, _)
FindNextAfter(round, limit, rounds) ==
  IF round.leave THEN round.date
  ELSE IF rounds = 0 THEN Diverged
  ELSE FindNextLoop(round.date, limit, rounds - 1)

FindNextLoop(nextDate, limit, rounds) ==
  FindNextAfter(FindNextRound(nextDate, limit), limit, rounds)

FindNextWithin(currentDate, limit) ==
  FindNextLoop(AddDays(currentDate, 1), limit, MaxRounds)

FindNextMatch(currentDate) ==
  FindNextWithin(currentDate, AddYears(currentDate, maximumYears))

\* one round of the loop of findPreviousMatch on the rule results
FindPreviousSettle(nextDates) == RoundEnd(nextDates, EarliestOf(nextDates))

FindPreviousRound(nextDate, limit) ==
  FindPreviousSettle(PreviousDatesOf(AddDays(nextDate, 1), limit))

RECURSIVE FindPreviousLoop(_, _, _)
FindPreviousAfter(round, limit, rounds) ==
  IF round.leave THEN round.date
  ELSE IF rounds = 0 THEN Diverged
  ELSE FindPreviousLoop(round.date, limit, rounds - 1)

FindPreviousLoop(nextDate, limit, rounds) ==
  FindPreviousAfter(FindPreviousRound(nextDate, limit), limit, rounds)

FindPreviousWithin(currentDate, limit) ==
  FindPreviousLoop(AddDays(currentDate, 0 - 1), limit, MaxRounds)

FindPreviousMatch(currentDate) ==
  FindPreviousWithin(currentDate, AddYears(currentDate, 0 - maximumYears))

\* ---- the iterator and its consumers

\* const startFrom = this.from || this.start
Origin == IF from # NoDate THEN from ELSE start

\* the body of the consumer's for-of loop: next() and previous() drop a date
\* that is the start date, all() and a direct iteration keep every date
Take(acc, date, skipStart) ==
  IF skipStart /\ start # NoDate /\ date = start THEN acc ELSE Append(acc, date)

\* the consumer's break; want < 0 is a consumer that never breaks
Done(acc, want) == want >= 0 /\ Len(acc) >= want

Finished(acc) == [dates |-> acc, err |-> "none"]

Failed(err) == [dates |-> <<>>, err |-> err]

\* the while (true) loop of the iterator, run as far as the consumer pulls:
\* one pass, given what findNextMatch / findPreviousMatch returned
RECURSIVE IteratorLoop(_, _, _, _, _, _)
\* a pass whose catch rethrows the RangeError of the search
IteratorPassRethrowing(found, rev, acc, want, skipStart, fuel) ==
  IF found = RangeErr THEN Failed("RangeError")
  ELSE IF found = TypeErr THEN Failed("TypeError")
  ELSE IF found = Diverged \/ fuel = 0 THEN Failed(ErrDiverged)
  ELSE IF end # NoDate /\ found > end THEN Finished(acc)
  ELSE IF ~IsException(found) /\ Done(Take(acc, found, skipStart), want)
       THEN Finished(Take(acc, found, skipStart))
       ELSE IteratorLoop(found, rev,
                         IF IsException(found) THEN acc
                         ELSE Take(acc, found, skipStart),
                         want, skipStart, fuel - 1)

IteratorPass(found, rev, acc, want, skipStart, fuel) ==
  IF found = RangeErr THEN Finished(acc)
  ELSE IF found = TypeErr THEN Failed("TypeError")
  ELSE IF found = Diverged \/ fuel = 0 THEN Failed(ErrDiverged)
  ELSE IF end # NoDate /\ found > end THEN Finished(acc)
  ELSE IF ~IsException(found) /\ Done(Take(acc, found, skipStart), want)
       THEN Finished(Take(acc, found, skipStart))
       ELSE IteratorLoop(found, rev,
                         IF IsException(found) THEN acc
                         ELSE Take(acc, found, skipStart),
                         want, skipStart, fuel - 1)

IteratorLoop(currentDate, rev, acc, want, skipStart, fuel) ==
  IteratorPass(IF rev THEN FindPreviousMatch(currentDate)
               ELSE FindNextMatch(currentDate),
               rev, acc, want, skipStart, fuel)

\* the iterator from its origin, given whether the origin matches all rules
IteratorStart(rev, want, skipStart, matched) ==
  IF matched /\ Done(Take(<<>>, Origin, skipStart), want)
  THEN Finished(Take(<<>>, Origin, skipStart))
  ELSE IteratorLoop(Origin, rev,
                    IF matched THEN Take(<<>>, Origin, skipStart) ELSE <<>>,
                    want, skipStart, MaxYield)

\* Recur[Symbol.iterator] drained by a consumer: [dates, err]
Iterator(rev, want, skipStart) ==
  IF Origin = NoDate THEN Failed("NoOrigin")
  ELSE IF end # NoDate /\ Origin > end THEN Failed("RangeInverted")
  ELSE IteratorStart(rev, want, skipStart, MatchAllRules(Origin))

\* what an enumeration call returns or throws
Returned(op, n, got) ==
  [Idle EXCEPT !.op = op, !.n = n, !.dates = got.dates, !.err = got.err]

\* ---- the calls

StartDate(date) ==
  /\ start' = IF date = NoDate THEN NoDate ELSE DateOnly(date)
  /\ call' = Idle
  /\ UNCHANGED <<end, from, rules, exceptions, units, measure, reversed, maximumYears>>

EndDate(date) ==
  /\ end' = IF date = NoDate THEN NoDate ELSE DateOnly(date)
  /\ call' = Idle
  /\ UNCHANGED <<start, from, rules, exceptions, units, measure, reversed, maximumYears>>

FromDate(date) ==
  /\ from' = IF date = NoDate THEN NoDate ELSE DateOnly(date)
  /\ call' = Idle
  /\ UNCHANGED <<start, end, rules, exceptions, units, measure, reversed, maximumYears>>

MaxYears(years) ==
  /\ maximumYears' = years
  /\ call' = Idle
  /\ UNCHANGED <<start, end, from, rules, exceptions, units, measure, reversed>>

\* every() once units and measure are staged and the rule is made
EveryStaged(units1, measure1, made) ==
  IF measure1 = "undefined"
  THEN /\ units' = units1
       /\ call' = Idle
       /\ UNCHANGED <<start, end, from, rules, exceptions, measure, reversed,
                      maximumYears>>
  ELSE IF made.err # "none"
  THEN /\ units' = units1
       /\ measure' = measure1
       /\ call' = Threw("every", made.err)
       /\ UNCHANGED <<start, end, from, rules, exceptions, reversed, maximumYears>>
  ELSE IF made.rule.measure = "weeksOfMonthByDay" /\ ~HasRule("daysOfWeek")
  THEN /\ units' = units1
       /\ measure' = measure1
       /\ call' = Threw("every", "RuleDependencyUnmet")
       /\ UNCHANGED <<start, end, from, rules, exceptions, reversed, maximumYears>>
  ELSE /\ units' = Undef
       /\ measure' = "undefined"
       /\ rules' = Append(WithoutMeasure(rules, made.rule.measure), made.rule)
       /\ call' = Idle
       /\ UNCHANGED <<start, end, from, exceptions, reversed, maximumYears>>

EveryWith(units1, measure1) ==
  EveryStaged(units1, measure1, Factory(units1, measure1, start))

Every(u, m) ==
  EveryWith(IF Truthy(u) THEN u ELSE units, IF m # "undefined" THEN m ELSE measure)

Except(date) ==
  /\ Len(exceptions) < MaxExceptions
  /\ exceptions' = Append(exceptions, DateOnly(date))
  /\ call' = Idle
  /\ UNCHANGED <<start, end, from, rules, units, measure, reversed, maximumYears>>

\* forget() given a measure name
ForgetRule(m) ==
  /\ NormalizeMeasure(m) # "invalid"
  /\ rules' = WithoutMeasure(rules, NormalizeMeasure(m))
  /\ call' = [Idle EXCEPT !.op = "forget"]
  /\ UNCHANGED <<start, end, from, exceptions, units, measure, reversed, maximumYears>>

\* the exceptions with the first one equal to a date taken out
DropFirst(exs, date) ==
  IF \A i \in 1..Len(exs) : exs[i] # date THEN exs
  ELSE [i \in 1..(Len(exs) - 1) |->
          IF \E j \in 1..i : exs[j] = date THEN exs[i + 1] ELSE exs[i]]

\* forget() that takes out one exception only
ForgetDateOnce(date) ==
  /\ exceptions' = DropFirst(exceptions, DateOnly(date))
  /\ call' = [Idle EXCEPT !.op = "forget", !.date = date]
  /\ UNCHANGED <<start, end, from, rules, units, measure, reversed, maximumYears>>

\* forget() given a valid date
ForgetDate(date) ==
  /\ exceptions' = SelectSeq(exceptions, LAMBDA ex : DateOnly(date) # ex)
  /\ call' = [Idle EXCEPT !.op = "forget", !.date = date]
  /\ UNCHANGED <<start, end, from, rules, units, measure, reversed, maximumYears>>

\* forget() given nothing, or a text that is neither a measure nor a date
ForgetInvalid(text) ==
  /\ NormalizeMeasure(text) = "invalid"
  /\ call' = Threw("forget", "InvalidForgetTarget")
  /\ UNCHANGED <<config, reversed>>

Reverse ==
  /\ reversed' = ~reversed
  /\ call' = Idle
  /\ UNCHANGED config

MatchesCall(date, ignoreStartEnd) ==
  /\ call' = [Idle EXCEPT !.op = "matches", !.date = date,
                          !.ignore = ignoreStartEnd,
                          !.result = Matches(date, ignoreStartEnd)]
  /\ UNCHANGED <<config, reversed>>

\* for (const date of this) ... break after count dates
Iterate(count) ==
  /\ maximumYears <= MaxHorizon
  /\ call' = Returned("iterate", count, Iterator(reversed, count, FALSE))
  /\ UNCHANGED <<config, reversed>>

\* all() without its look at the end date
AllWithoutEndCheck ==
  /\ maximumYears <= MaxHorizon
  /\ reversed' = FALSE
  /\ call' = Returned("all", 0, Iterator(FALSE, 0 - 1, FALSE))
  /\ UNCHANGED config

All ==
  /\ maximumYears <= MaxHorizon
  /\ IF end = NoDate
     THEN /\ call' = Threw("all", "MissingEnd")
          /\ UNCHANGED reversed
     ELSE /\ reversed' = FALSE
          /\ call' = Returned("all", 0, Iterator(FALSE, 0 - 1, FALSE))
  /\ UNCHANGED config

\* next() that enumerates in the direction the flag has
NextDatesAsFlagged(num) ==
  /\ maximumYears <= MaxHorizon
  /\ call' = Returned("next", num, Iterator(reversed, num, TRUE))
  /\ UNCHANGED <<config, reversed>>

NextDates(num) ==
  /\ maximumYears <= MaxHorizon
  /\ reversed' = FALSE
  /\ call' = Returned("next", num, Iterator(FALSE, num, TRUE))
  /\ UNCHANGED config

\* the last of the dates, or a date when there are none
LastOr(dates, date) == IF dates = <<>> THEN date ELSE dates[Len(dates)]

\* previous() that leaves the from date where the enumeration stopped
PreviousDatesMovingFrom(num) ==
  /\ maximumYears <= MaxHorizon
  /\ reversed' = TRUE
  /\ call' = Returned("previous", num, Iterator(TRUE, num, TRUE))
  /\ from' = LastOr(Iterator(TRUE, num, TRUE).dates, from)
  /\ UNCHANGED <<start, end, rules, exceptions, units, measure, maximumYears>>

PreviousDates(num) ==
  /\ maximumYears <= MaxHorizon
  /\ reversed' = TRUE
  /\ call' = Returned("previous", num, Iterator(TRUE, num, TRUE))
  /\ UNCHANGED config

\* save(): the record it returns
SavedOptions ==
  [start      |-> IF start # NoDate THEN Format(start) ELSE <<>>,
   end        |-> IF end # NoDate THEN Format(end) ELSE <<>>,
   exceptions |-> [i \in 1..Len(exceptions) |-> Format(exceptions[i])],
   rules      |-> [i \in 1..Len(rules) |->
                    [units |-> rules[i].units, measure |-> rules[i].measure]]]

Save ==
  /\ call' = [Idle EXCEPT !.op = "save", !.saved = SavedOptions]
  /\ UNCHANGED <<config, reversed>>

\* new Recur(options) on a saved record
OptionDate(text) == IF text = <<>> THEN NoDate ELSE ParseDateOnly(text)

OptionRule(options, i) ==
  Factory(Arr(options.rules[i].units), options.rules[i].measure,
          OptionDate(options.start))

\* the first rule of the record that Rule.factory refuses
FirstRefused(options) ==
  CHOOSE i \in 1..Len(options.rules) :
    /\ OptionRule(options, i).err # "none"
    /\ \A j \in 1..(i - 1) : OptionRule(options, j).err = "none"

\* the recurrence is replaced by the one built from the record saved last;
\* when the constructor throws there is no new recurrence
Load ==
  /\ call.op = "save"
  /\ IF \E i \in 1..Len(call.saved.rules) : OptionRule(call.saved, i).err # "none"
     THEN /\ call' = Threw("load", OptionRule(call.saved, FirstRefused(call.saved)).err)
          /\ UNCHANGED <<config, reversed>>
     ELSE /\ start' = OptionDate(call.saved.start)
          /\ end' = OptionDate(call.saved.end)
          /\ rules' = [i \in 1..Len(call.saved.rules) |-> OptionRule(call.saved, i).rule]
          /\ exceptions' = [i \in 1..Len(call.saved.exceptions) |->
                              ParseDateOnly(call.saved.exceptions[i])]
          /\ from' = NoDate
          /\ units' = Undef
          /\ measure' = "undefined"
          /\ reversed' = FALSE
          /\ maximumYears' = DefaultMaxYears
          /\ call' = [Idle EXCEPT !.op = "load"]

\* ---- the specifications

\* new Recur(options): the rules are built by Rule.factory from the start
\* date of the record; construction fails when a rule cannot be built
BuiltRules(opts, anchor) == [i \in 1..Len(opts) |-> Factory(opts[i].units, opts[i].measure, anchor).rule]

Constructed(startOpts, endOpts, ruleOpts, exceptionOpts) ==
  /\ start \in startOpts
  /\ end \in endOpts
  /\ \E opts \in ruleOpts :
       /\ \A i \in 1..Len(opts) :
            Factory(opts[i].units, opts[i].measure, start).err = "none"
       /\ rules = BuiltRules(opts, start)
  /\ \E opts \in exceptionOpts :
       exceptions = [i \in 1..Len(opts) |-> DateOnly(opts[i])]
  /\ from = NoDate
  /\ units = Undef
  /\ measure = "undefined"
  /\ reversed = FALSE
  /\ maximumYears = DefaultMaxYears
  /\ call = Idle

\* a Recur built with start and end only, then configured and asked for
\* matches
Init == Constructed(InputDates \cup {NoDate}, InputDates \cup {NoDate}, {<<>>}, {<<>>})

Next ==
  \/ \E d \in GivenDates \cup {NoDate} : StartDate(d)
  \/ \E d \in GivenDates \cup {NoDate} : EndDate(d)
  \/ \E e \in EveryInputs : Every(e.units, e.measure)
  \/ \E d \in GivenDates : Except(d)
  \/ \E m \in ForgetMeasures : ForgetRule(m)
  \/ \E d \in GivenDates : ForgetDate(d)
  \/ \E text \in {"", "toothpaste"} : ForgetInvalid(text)
  \/ \E d \in GivenDates, ig \in BOOLEAN : MatchesCall(d, ig)

Spec == Init /\ [][Next]_vars

\* a Recur built from a whole options record, then enumerated
InitEnum ==
  Constructed(InputDates \cup {NoDate}, InputDates \cup {NoDate}, RuleOptions,
              ExceptionOptions)

NextEnum ==
  \/ \E d \in InputDates \cup {NoDate} : FromDate(d)
  \/ \E y \in 1..MaxHorizon : MaxYears(y)
  \/ Reverse
  \/ \E n \in 1..MaxCount : Iterate(n)
  \/ \E d \in InputDates, ig \in BOOLEAN : MatchesCall(d, ig)
  \/ All
  \/ \E n \in 1..MaxCount : NextDates(n)
  \/ \E n \in 1..MaxCount : PreviousDates(n)

SpecEnum == InitEnum /\ [][NextEnum]_vars

\* a Recur built from a rules option, then given rules by every() in one and
\* in two steps and relieved of them by forget()
EveryUnits == {Undef, Num(0), Num(1), Num(9)}

EveryMeasures ==
  {"undefined", "days", "daysOfWeek", "weeksOfMonth", "weeksOfMonthByDay",
   "monthsOfYear"}

RuleListOptions ==
  {<<>>,
   <<RuleInput(Num(1), "daysOfWeek"), RuleInput(Num(2), "daysOfWeek")>>}

InitRules == Constructed({Date1, NoDate}, {NoDate}, RuleListOptions, {<<>>})

NextRules ==
  \/ \E u \in EveryUnits, m \in EveryMeasures : Every(u, m)
  \/ \E m \in EveryMeasures \ {"undefined"} : ForgetRule(m)

SpecRules == InitRules /\ [][NextRules]_vars

\* a Recur with one Interval rule anchored at its start date, asked for
\* matches and enumerated from the anchor and from a later date
Date3 == MakeMoment(2018, 0, 31, 0)

IntervalOptions ==
  {<<RuleInput(Num(2), "days")>>,
   <<RuleInput(Arr(<<3, 5>>), "days")>>,
   <<RuleInput(Arr(<<5, 3>>), "days")>>,
   <<RuleInput(Num(2), "weeks")>>,
   <<RuleInput(Num(1), "months")>>,
   <<RuleInput(Num(3), "month")>>,
   <<RuleInput(Num(1), "years")>>}

\* the days around the anchors, and the anchors moved by whole months
IntervalDates ==
  {Midnight(z) : z \in (DayNum(Date1) - 8)..(DayNum(Date1) + 32)}
    \cup {AddMonths(a, k) : a \in {Date1, Date3}, k \in (0 - 2)..13}

InitInterval == Constructed({Date1, Date3}, {NoDate}, IntervalOptions, {<<>>})

\* rules counted in days or weeks are followed for more steps
MaxVisits == 5

VisitCounts ==
  IF rules[1].measure \in {"days", "weeks"} THEN 1..MaxVisits ELSE 1..MaxCount

NextInterval ==
  \/ \E d \in IntervalDates, ig \in BOOLEAN : MatchesCall(d, ig)
  \/ \E y \in 1..MaxHorizon : MaxYears(y)
  \/ \E d \in {Date2, NoDate} : FromDate(d)
  \/ \E n \in VisitCounts : NextDates(n)
  \/ \E n \in VisitCounts : PreviousDates(n)

SpecInterval == InitInterval /\ [][NextInterval]_vars

\* a Recur with a start date, given one rule at a time through every():
\* Rule.factory applied to unit lists in and out of each measure's domain
UnitInputs ==
  {Arr(<<x>>) : x \in (0 - 3)..55}
    \cup {Arr(<<5, 3>>), Arr(<<3, 0 - 1, 1>>), Arr(<<1, Half(1)>>), Arr(<<Half(40)>>),
          Arr(<<Half(0 - 1)>>), Arr(<<60, Half(1)>>), Num(2), Num(0 - 1)}

UnitMeasures == IntervalMeasures \cup DOMAIN Ranges

FreshRules == {<<>>, <<[measure |-> "daysOfWeek", units |-> <<1>>, anchor |-> NoDate]>>}

InitUnits ==
  Constructed({Date1}, {NoDate}, {<<>>, <<RuleInput(Num(1), "daysOfWeek")>>}, {<<>>})

NextUnits ==
  \/ \E u \in UnitInputs, m \in UnitMeasures : rules \in FreshRules /\ Every(u, m)
  \/ \E m \in UnitMeasures : ForgetRule(m)

SpecUnits == InitUnits /\ [][NextUnits]_vars

\* a Recur with one Calendar rule, asked for matches day by day from
\* 2017-12-25 to 2018-04-30
CalendarOptions ==
  {<<RuleInput(Arr(us), "daysOfMonth")>> :
     us \in {<<0 - 1>>, <<30>>, <<0 - 1, 15>>, <<1, 31>>}}
    \cup {<<RuleInput(Arr(us), "daysOfWeek")>> : us \in {<<1, 3>>, <<0 - 1>>, <<0 - 1, 2>>}}
    \cup {<<RuleInput(Arr(us), "weeksOfMonth")>> : us \in {<<0>>, <<0 - 1>>, <<0 - 1, 1>>}}
    \cup {<<RuleInput(Arr(us), "weeksOfMonthByDay")>> : us \in {<<0>>, <<0 - 1>>, <<4>>}}
    \cup {<<RuleInput(Arr(us), "weeksOfYear")>> : us \in {<<1>>, <<0 - 1>>, <<7, 20>>}}
    \cup {<<RuleInput(Arr(us), "monthsOfYear")>> : us \in {<<1>>, <<0 - 1>>, <<0 - 1, 2>>}}
    \cup {<<RuleInput(Num(w), "daysOfWeek"), RuleInput(Arr(<<0 - 1>>), "weeksOfMonthByDay")>> :
            w \in {1, 4}}

CalendarDates ==
  {Midnight(z) : z \in DayNum(MakeMoment(2017, 11, 25, 0))..DayNum(MakeMoment(2018, 3, 30, 0))}

InitCalendar == Constructed({NoDate}, {NoDate}, CalendarOptions, {<<>>})

NextCalendar ==
  \/ \E d \in CalendarDates, ig \in BOOLEAN : MatchesCall(d, ig)
  \/ \E y \in 1..MaxHorizon : MaxYears(y)

SpecCalendar == InitCalendar /\ [][NextCalendar]_vars

\* a Recur that is configured, saved and built again from the saved record
SaveRuleOptions ==
  {<<>>,
   <<RuleInput(Num(2), "days")>>,
   <<RuleInput(Arr(<<3, 0 - 1>>), "daysOfMonth")>>,
   <<RuleInput(Num(1), "daysOfWeek"), RuleInput(Arr(<<0 - 1>>), "weeksOfMonthByDay")>>}

SaveDates == {AddDays(Date1, n) : n \in 0..8}

InitSave ==
  Constructed({Date1, NoDate}, {Date2, NoDate}, SaveRuleOptions, {<<>>, <<Date3>>})

NextSave ==
  \/ \E d \in {Date1, AddDays(Date1, 1), NoDate} : StartDate(d)
  \/ \E d \in {Date3, Date1Late} : Except(d)
  \/ \E d \in {Date2, NoDate} : FromDate(d)
  \/ \E d \in SaveDates, ig \in BOOLEAN : MatchesCall(d, ig)
  \/ Save
  \/ Load

SpecSave == InitSave /\ [][NextSave]_vars

\* a Recur with one weeksOfYear rule, enumerated across the turn of a year
WeekRuleOptions ==
  {<<RuleInput(Num(1), "weeksOfYear")>>,
   <<RuleInput(Arr(<<1, 20>>), "weeksOfYear")>>,
   <<RuleInput(Num(52), "weeksOfYear")>>}

\* Sat 2016-01-02 and Sat 2018-01-06, each the last day of week 1
WeekStarts == {MakeMoment(2016, 0, 2, 0), MakeMoment(2018, 0, 6, 0)}

WeekEnds == {MakeMoment(2017, 0, 31, 0), MakeMoment(2019, 0, 31, 0), NoDate}

\* Wed 2018-01-03 and Sat 2018-12-29
WeekFroms == {MakeMoment(2018, 0, 3, 0), MakeMoment(2018, 11, 29, 0), NoDate}

InitWeeks == Constructed(WeekStarts, WeekEnds, WeekRuleOptions, {<<>>})

NextWeeks ==
  \/ \E d \in WeekFroms : FromDate(d)
  \/ \E y \in 1..MaxHorizon : MaxYears(y)
  \/ Reverse
  \/ \E n \in 1..MaxCount : Iterate(n)
  \/ All
  \/ \E n \in 1..MaxCount : NextDates(n)
  \/ \E n \in 1..MaxCount : PreviousDates(n)

SpecWeeks == InitWeeks /\ [][NextWeeks]_vars

\* ---- the properties

EnumerationOps == {"iterate", "all", "next", "previous"}

\* the exception set holds the day of the date
Excepted(date) == DateOnly(date) \in {exceptions[i] : i \in 1..Len(exceptions)}

\* the day satisfies every rule and is not excepted
Qualifies(z) == MatchAllRules(Midnight(z)) /\ ~Excepted(Midnight(z))

\* the midnights of the n earliest days of S, ascending
RECURSIVE Earliest(_, _)
Earliest(n, S) ==
  IF n = 0 \/ S = {} THEN <<>>
  ELSE <<Midnight(CHOOSE x \in S : \A y \in S : x <= y)>>
       \o Earliest(n - 1, S \ {CHOOSE x \in S : \A y \in S : x <= y})

\* the midnights of the n latest days of S, descending
RECURSIVE Latest(_, _)
Latest(n, S) ==
  IF n = 0 \/ S = {} THEN <<>>
  ELSE <<Midnight(CHOOSE x \in S : \A y \in S : x >= y)>>
       \o Latest(n - 1, S \ {CHOOSE x \in S : \A y \in S : x >= y})

Ascending(S) == Earliest(Cardinality(S), S)

OriginInRange == Origin # NoDate /\ (end = NoDate \/ Origin <= end)

\* C1: with an end date and an origin not after it, all() returns, ascending
\* and without duplicates, exactly the dates from the origin to the end date
\* that satisfy every rule and are not excepted.
C1_AllIsTheQualifyingDates ==
  (call.op = "all" /\ end # NoDate /\ OriginInRange)
    => /\ call.err = "none"
       /\ call.dates = Ascending({z \in DayNum(Origin)..DayNum(end) : Qualifies(z)})

\* C2: every date an enumeration produces, in either direction and with one
\* or more rules, satisfies every rule.
C2_ProducedDatesMatchEveryRule ==
  (call.op \in EnumerationOps /\ Len(rules) >= 1)
    => \A i \in 1..Len(call.dates) : MatchAllRules(call.dates[i])

\* C3: after any sequence of every, except, forget, startDate and endDate
\* calls, matches(d) and matches(d, true) are both false for every date d of
\* the exception set.
C3_ExceptedDateNeverMatches ==
  \A d \in GivenDates :
    Excepted(d) => /\ ~Matches(d, FALSE)
                   /\ ~Matches(d, TRUE)
                   /\ (call.op = "matches" /\ call.date = d => ~call.result)

\* matches(d, true) was asked for an excepted date, given with a time of day,
\* that every rule matches
C3_ExceptedDateAsked ==
  /\ call.op = "matches"
  /\ call.ignore
  /\ call.date = Date1Late
  /\ Excepted(call.date)
  /\ Len(rules) >= 1
  /\ MatchAllRules(DateOnly(call.date))
  /\ ~call.result

\* C4: no date returned by next, previous, all or a direct iteration is in
\* the exception set, the origin and the backward direction included.
C4_ProducedDatesAreNotExcepted ==
  call.op \in EnumerationOps
    => \A i \in 1..Len(call.dates) : ~Excepted(call.dates[i])

WithinBounds(date) ==
  /\ (start = NoDate \/ start <= date)
  /\ (end = NoDate \/ date <= end)

MatchesExpected(d, ignoreBounds) ==
  /\ (ignoreBounds \/ WithinBounds(DateOnly(d)))
  /\ ~Excepted(d)
  /\ \A i \in 1..Len(rules) : RuleMatch(rules[i], DateOnly(d))

\* C5: matches(d, ignoreBounds) is true exactly when ignoreBounds is set or d
\* lies within the start and end dates, both inclusive, d is not excepted, and
\* every rule matches d.
C5_MatchesIsBoundsExceptionsAndRules ==
  /\ \A d \in GivenDates, ig \in BOOLEAN : Matches(d, ig) = MatchesExpected(d, ig)
  /\ call.op = "matches" => call.result = MatchesExpected(call.date, call.ignore)

\* matches(d) answered true for d on the start date itself, with two rules
C5_MatchedOnStartDate ==
  /\ call.op = "matches"
  /\ ~call.ignore
  /\ start # NoDate
  /\ DateOnly(call.date) = start
  /\ Len(rules) >= 2
  /\ call.result

\* the days from the origin to the search horizon, or to the end date
ForwardDays ==
  {z \in DayNum(Origin)..DayNum(AddYears(Origin, maximumYears)) :
     end = NoDate \/ Midnight(z) <= end}

BackwardDays == DayNum(AddYears(Origin, 0 - maximumYears))..DayNum(Origin)

IsStartDate(z) == start # NoDate /\ Midnight(z) = start

\* C6: for n >= 1, next(n) returns, strictly ascending, the n earliest dates
\* not before the origin, other than the start date, that satisfy every rule
\* and are not excepted; an excepted date uses no slot, and fewer than n dates
\* come back only when the enumeration ended.
C6_NextIsTheEarliestQualifyingDates ==
  (call.op = "next" /\ OriginInRange)
    => /\ call.err = "none"
       /\ call.dates =
            Earliest(call.n, {z \in ForwardDays : Qualifies(z) /\ ~IsStartDate(z)})

\* C7: for n >= 1, previous(n) returns, nearest first and strictly
\* descending, the n latest dates not after the origin, other than the start
\* date, that satisfy every rule and are not excepted, skipping none.
C7_PreviousIsTheLatestQualifyingDates ==
  (call.op = "previous" /\ OriginInRange)
    => /\ call.err = "none"
       /\ [i \in 1..Len(call.dates) |-> DateOnly(call.dates[i])] =
            Latest(call.n, {z \in BackwardDays : Qualifies(z) /\ ~IsStartDate(z)})

\* no day within maximumYears of the origin, on either side, satisfies every
\* rule
NeverMatching ==
  /\ Len(rules) >= 1
  /\ \A z \in DayNum(AddYears(Origin, 0 - maximumYears))
              ..DayNum(AddYears(Origin, maximumYears)) :
       ~MatchAllRules(Midnight(z))

\* C8: with rules that can never all match within maxYears of the cursor,
\* such as monthsOfYear February with daysOfMonth 30, next(n) and previous(n)
\* end with an empty or short list, without an error.
C8_NeverMatchingRulesEndEmpty ==
  (call.op \in {"next", "previous"} /\ OriginInRange /\ NeverMatching)
    => /\ call.err = "none"
       /\ Len(call.dates) < call.n
       /\ call.dates = <<>>

\* previous(n) came back empty from rules that never match
C8_NeverMatchingSearched ==
  /\ call.op = "previous"
  /\ call.n >= 1
  /\ OriginInRange
  /\ NeverMatching
  /\ Len(rules) = 2
  /\ call.err = "none"
  /\ call.dates = <<>>

\* C9: with or without a from date, whenever the end date is set and the
\* start date is later than it, any enumeration fails with RangeInverted before
\* producing a date; when the start date is not later than the end date no
\* RangeInverted failure occurs.
C9_RangeInvertedIffStartAfterEnd ==
  (call.op \in EnumerationOps /\ start # NoDate /\ end # NoDate)
    => IF start > end
       THEN call.err = "RangeInverted" /\ call.dates = <<>>
       ELSE call.err # "RangeInverted"

\* C10: an enumeration asked for n >= 1 dates with neither a from date nor a
\* start date fails with NoOrigin, and all() without an end date fails with
\* MissingEnd; neither produces a partial result, and the rules, the
\* exceptions and the dates are left as they were.
C10_FailedEnumerationChangesNothing ==
  [][/\ (call'.op \in {"iterate", "next", "previous"} /\ from' = NoDate
          /\ start' = NoDate)
        => (call'.err = "NoOrigin" /\ call'.dates = <<>>)
     /\ (call'.op = "all" /\ end' = NoDate)
        => (call'.err = "MissingEnd" /\ call'.dates = <<>>)
     /\ (call'.err \in {"NoOrigin", "MissingEnd"})
        => (rules' = rules /\ exceptions' = exceptions /\ start' = start
            /\ end' = end /\ from' = from)]_vars

\* next(n) failed for want of an origin on a recurrence that has a rule, an
\* exception and an end date
C10_NoOriginRaised ==
  /\ call.op = "next"
  /\ call.n >= 1
  /\ call.err = "NoOrigin"
  /\ Len(rules) >= 1
  /\ Len(exceptions) >= 1
  /\ end # NoDate

\* C11: in every reachable state, after construction from an options record
\* and after any sequence of every and forget calls, the rule list holds at
\* most one rule per measure.
C11_OneRulePerMeasure ==
  \A i, j \in 1..Len(rules) : rules[i].measure = rules[j].measure => i = j

\* the rule every() has just put at the end of the rule list
LastRule(rs) == rs[Len(rs)]

\* every(u) found nothing to build: the rule list is as before, u is staged
StagedOnly(u) == rules' = rules /\ units' = u /\ call'.err = "none"

\* every(m) built its rule from the staged units and cleared the staged pair
BuiltFromStaged(m) ==
  /\ Len(rules') >= 1
  /\ LastRule(rules').measure = NormalizeMeasure(m)
  /\ LastRule(rules').units = SortUnits(units.v)
  /\ units' = Undef
  /\ measure' = "undefined"

\* C12: every(units) without a measure creates no rule and only stages the
\* units, a later every(units') before any measure overrides them, and when a
\* measure is then supplied the rule is built from the units staged last and
\* the staged pair is cleared.
C12_UnitsAreStagedUntilTheMeasure ==
  /\ \A u \in EveryUnits \ {Undef} :
       ENABLED (Every(u, "undefined") /\ StagedOnly(u))
  /\ \A m \in EveryMeasures \ {"undefined"} :
       units # Undef
         => ENABLED (Every(Undef, m) /\ (call'.err = "none" => BuiltFromStaged(m)))

\* every(u, m) failed with err and left the rule list as it was
FailedWith(err) == call'.err = err /\ rules' = rules

\* C13: every fails with RuleDependencyUnmet when a weeksOfMonthByDay rule is
\* added while no daysOfWeek rule is present, and with MissingAnchor when an
\* Interval rule is added while no start date is set; after such a failure
\* the rule list is exactly what it was before the call.
C13_EveryFailsOnUnmetDependencyOrAnchor ==
  /\ ~HasRule("daysOfWeek")
       => \A u \in {Num(0), Num(1)} :
            ENABLED (Every(u, "weeksOfMonthByDay") /\ FailedWith("RuleDependencyUnmet"))
  /\ start = NoDate
       => \A u \in {Num(1), Num(9)} :
            ENABLED (Every(u, "days") /\ FailedWith("MissingAnchor"))

\* the measures of the claim whose domain holds 0
ZeroMeasures == {"weeksOfMonthByDay", "daysOfWeek", "weeksOfMonth", "monthsOfYear"}

\* every() succeeded and put the rule of measure m with units [0] last
BuiltZero(m) ==
  /\ call'.err = "none"
  /\ Len(rules') >= 1
  /\ LastRule(rules') = [measure |-> m, units |-> <<0>>, anchor |-> NoDate]

NothingStaged == units = Undef /\ measure = "undefined"

\* C14: a unit value of 0 is accepted wherever 0 lies in the measure's
\* domain: every(0) followed by the measure (weeksOfMonthByDay with a
\* daysOfWeek rule present, daysOfWeek, weeksOfMonth, monthsOfYear) creates a
\* rule with units [0], exactly as every(0, measure) in one call does.
C14_ZeroIsAUnit ==
  \A m \in ZeroMeasures :
    (m = "weeksOfMonthByDay" => HasRule("daysOfWeek"))
      => /\ NothingStaged => ENABLED (Every(Num(0), m) /\ BuiltZero(m))
         /\ NothingStaged => ENABLED (Every(Num(0), "undefined") /\ units' = Num(0))
         /\ (units = Num(0) /\ measure = "undefined")
              => ENABLED (Every(Undef, m) /\ BuiltZero(m))


\* the anchor moved by n of the rule's measure
Shifted(rule, n) ==
  CASE rule.measure = "days"   -> AddDays(rule.anchor, n)
    [] rule.measure = "weeks"  -> AddWeeks(rule.anchor, n)
    [] rule.measure = "months" -> AddMonths(rule.anchor, n)
    [] rule.measure = "years"  -> AddYears(rule.anchor, n)

\* how many multiples reach past every date asked about
Span(m) ==
  CASE m = "days"   -> 450
    [] m = "weeks"  -> 65
    [] m = "months" -> 15
    [] m = "years"  -> 4

\* the dates k * U of the measure away from the anchor, k in ks
Multiples(rule, ks) ==
  {Shifted(rule, k * rule.units[i]) : k \in ks, i \in 1..Len(rule.units)}

OneIntervalRule == Len(rules) = 1 /\ rules[1].measure \in IntervalMeasures

\* C15: an Interval rule matches every date that lies k * U of its measure
\* after the anchor (U one of its units, k >= 0), and matches no date whose
\* distance from the anchor is not a multiple of any unit
C15_IntervalMatchesTheMultiples ==
  (OneIntervalRule /\ call.op = "matches")
    => /\ call.date \in Multiples(rules[1], 0..Span(rules[1].measure))
            => call.result
       /\ call.date \notin Multiples(rules[1],
                                     (0 - Span(rules[1].measure))..Span(rules[1].measure))
            => ~call.result

C15_SecondMultipleOfFiveAsked ==
  /\ OneIntervalRule
  /\ rules[1].measure = "days"
  /\ rules[1].units = <<3, 5>>
  /\ call.op = "matches"
  /\ call.date = AddDays(start, 10)
  /\ call.result


\* the days of the rule's multiples k * U, after and before the anchor
MultipleDays ==
  {DayNum(m) : m \in Multiples(rules[1],
                               (0 - Span(rules[1].measure))..Span(rules[1].measure))}

\* no day strictly between two dates is matched by the rule
NoMatchBetween(rule, a, b) ==
  \A z \in (DayNum(a) + 1)..(DayNum(b) - 1) : ~IntervalMatch(rule, Midnight(z))

\* C16: next(current) of an Interval rule is the earliest date after current
\* at a multiple of some unit and previous(current) the latest one before it;
\* enumerating from the anchor, or from a later date, visits exactly the
\* multiples in order, without drift (the recurrence leaves its start date
\* out of what next and previous return)
C16_IntervalNextIsTheNextMultiple ==
  OneIntervalRule
    => /\ call.op = "matches"
            => /\ IntervalNext(rules[1], call.date) > call.date
               /\ IntervalMatch(rules[1], IntervalNext(rules[1], call.date))
               /\ NoMatchBetween(rules[1], call.date, IntervalNext(rules[1], call.date))
               /\ IntervalPrevious(rules[1], call.date) < call.date
               /\ IntervalMatch(rules[1], IntervalPrevious(rules[1], call.date))
               /\ NoMatchBetween(rules[1], IntervalPrevious(rules[1], call.date), call.date)
       /\ call.op = "next"
            => /\ call.err = "none"
               /\ call.dates = Earliest(call.n, {z \in MultipleDays :
                                                   Midnight(z) >= Origin /\ Midnight(z) # start})
       /\ call.op = "previous"
            => /\ call.err = "none"
               /\ call.dates = Latest(call.n, {z \in MultipleDays :
                                                 Midnight(z) <= Origin /\ Midnight(z) # start})

C16_FiveVisitsOfThreeAndFive ==
  /\ OneIntervalRule
  /\ rules[1].units = <<3, 5>>
  /\ from = NoDate
  /\ call.op = "next"
  /\ call.dates = <<AddDays(start, 3), AddDays(start, 5), AddDays(start, 6),
                    AddDays(start, 9), AddDays(start, 10)>>


IsAscending(us) == \A j, k \in 1..Len(us) : j < k => us[j] <= us[k]

\* a unit list the Interval constructor must refuse
HasBadIntervalUnit(u) == \E j \in 1..Len(u.v) : u.v[j] <= 0 \/ ~IsInteger(u.v[j])

\* C17: every Interval rule holds positive integer units in ascending order,
\* whatever order they were given in, and building one from a unit that is
\* zero, negative or not an integer fails with InvalidUnit
C17_IntervalUnitsPositiveAscending ==
  /\ \A i \in 1..Len(rules) :
       rules[i].measure \in IntervalMeasures
         => /\ \A j \in 1..Len(rules[i].units) :
                 rules[i].units[j] > 0 /\ IsInteger(rules[i].units[j])
            /\ IsAscending(rules[i].units)
  /\ \A u \in UnitInputs, m \in IntervalMeasures :
       HasBadIntervalUnit(u)
         => ENABLED (Every(u, m) /\ call'.err = "InvalidUnit" /\ rules' = rules)


\* the domain of each Calendar measure, as the claim lists it
DomainOf(m) ==
  CASE m = "daysOfWeek"        -> 0..6
    [] m = "daysOfMonth"       -> 1..31
    [] m = "weeksOfMonth"      -> 0..4
    [] m = "weeksOfMonthByDay" -> 0..4
    [] m = "weeksOfYear"       -> 1..53
    [] m = "monthsOfYear"      -> 0..11

HasFraction(u) == \E j \in 1..Len(u.v) : ~IsInteger(u.v[j])

HasOutside(u, m) ==
  \E j \in 1..Len(u.v) :
    IsInteger(u.v[j]) /\ u.v[j] # 0 - 1 /\ u.v[j] \notin DomainOf(m)

\* the units of the rule just built are the given ones, ascending
BuiltSorted(u, m) ==
  /\ Len(rules') >= 1
  /\ LastRule(rules').measure = m
  /\ Len(LastRule(rules').units) = Len(u.v)
  /\ {LastRule(rules').units[j] : j \in 1..Len(u.v)} = {u.v[j] : j \in 1..Len(u.v)}
  /\ IsAscending(LastRule(rules').units)

\* what every(u, m) must do with a Calendar measure
UnitsOutcome(u, m) ==
  /\ (HasFraction(u) \/ HasOutside(u, m)) => rules' = rules
  /\ (HasFraction(u) /\ ~HasOutside(u, m)) => call'.err = "InvalidUnit"
  /\ (HasOutside(u, m) /\ ~HasFraction(u)) => call'.err = "OutOfRange"
  /\ (HasFraction(u) /\ HasOutside(u, m)) => call'.err \in {"InvalidUnit", "OutOfRange"}
  /\ (~HasFraction(u) /\ ~HasOutside(u, m))
       => /\ call'.err \in {"none", "RuleDependencyUnmet"}
          /\ call'.err = "none" => BuiltSorted(u, m)

\* C18: every Calendar rule holds its units ascending, the sentinel -1
\* first, each other unit inside the measure's domain; building one from an
\* integer outside the domain fails with OutOfRange and from a value that is
\* not an integer with InvalidUnit
C18_CalendarUnitsSortedInDomain ==
  /\ \A i \in 1..Len(rules) :
       rules[i].measure \in CalendarMeasures
         => /\ IsAscending(rules[i].units)
            /\ \A j \in 1..Len(rules[i].units) :
                 rules[i].units[j] = 0 - 1 \/ rules[i].units[j] \in DomainOf(rules[i].measure)
  /\ \A u \in UnitInputs, m \in CalendarMeasures :
       ENABLED (Every(u, m) /\ UnitsOutcome(u, m))

C18_SentinelSortedFirst ==
  \E i \in 1..Len(rules) :
    /\ rules[i].measure = "daysOfMonth"
    /\ rules[i].units = <<0 - 1, 1, 3>>
    /\ call.op = "none"


OneCalendarRule == Len(rules) = 1 /\ rules[1].measure \in CalendarMeasures

\* the value of the measure's field at a date
FieldOf(m, d) ==
  CASE m = "daysOfWeek"        -> Day(d)
    [] m = "daysOfMonth"       -> Date(d)
    [] m = "weeksOfMonth"      -> MonthWeek(d)
    [] m = "weeksOfMonthByDay" -> MonthWeekByDay(d)
    [] m = "weeksOfYear"       -> Week(d)
    [] m = "monthsOfYear"      -> Month(d)

\* two dates lie in the same week (from Sunday), month or year
SameRange(m, a, b) ==
  CASE m = "daysOfWeek" -> DayNum(a) - Day(a) = DayNum(b) - Day(b)
    [] m \in {"daysOfMonth", "weeksOfMonth", "weeksOfMonthByDay"} ->
         Year(a) = Year(b) /\ Month(a) = Month(b)
    [] m \in {"weeksOfYear", "monthsOfYear"} -> Year(a) = Year(b)

\* the last day of the range a date lies in
LastDayOfRange(m, d) ==
  CHOOSE l \in {AddDays(d, n) : n \in 0..366} :
    SameRange(m, d, l) /\ ~SameRange(m, d, AddDays(l, 1))

UnitSet(rule) == {rule.units[i] : i \in 1..Len(rule.units)}

\* a date qualifies for a Calendar rule as the claim words it
FieldQualifies(rule, d) ==
  \/ FieldOf(rule.measure, d) \in UnitSet(rule)
  \/ /\ (0 - 1) \in UnitSet(rule)
     /\ FieldOf(rule.measure, d) = FieldOf(rule.measure, LastDayOfRange(rule.measure, d))

\* C19: a Calendar rule matches a date exactly when the date's field value
\* is one of the units, or the units hold -1 and the field value equals that
\* of the last day of the date's range; daysOfMonth [-1] matches 2018-02-28,
\* 2018-03-31 and 2018-04-30 and no other day of these months
C19_CalendarMatchesFieldOrLast ==
  (OneCalendarRule /\ call.op = "matches")
    => /\ call.result <=> FieldQualifies(rules[1], call.date)
       /\ (rules[1].measure = "daysOfMonth" /\ rules[1].units = <<0 - 1>>
             /\ call.date >= MakeMoment(2018, 1, 1, 0))
            => (call.result <=> call.date \in {MakeMoment(2018, 1, 28, 0),
                                                MakeMoment(2018, 2, 31, 0),
                                                MakeMoment(2018, 3, 30, 0)})

C19_LastDayOfAprilAsked ==
  /\ OneCalendarRule
  /\ rules[1].measure = "daysOfMonth"
  /\ rules[1].units = <<0 - 1>>
  /\ call.op = "matches"
  /\ call.date = MakeMoment(2018, 3, 30, 0)
  /\ call.result


\* rule.next(date asked about, that date plus maximumYears years)
NextOfAsked ==
  CalendarNext(rules[1], call.date, AddYears(call.date, maximumYears))

CalendarNextAsked ==
  /\ OneCalendarRule
  /\ call.op = "matches"
  /\ maximumYears <= MaxHorizon
  /\ NextOfAsked # RangeErr

\* C20: whenever next(c, limit) of a Calendar rule returns, the date it
\* returns is later than c, is matched by the rule, and the rule matches no
\* date between c and it
C20_CalendarNextIsTheNextMatch ==
  CalendarNextAsked
    => /\ NextOfAsked > call.date
       /\ CalendarMatch(rules[1], NextOfAsked)
       /\ \A z \in (DayNum(call.date) + 1)..(DayNum(NextOfAsked) - 1) :
            ~CalendarMatch(rules[1], Midnight(z))


\* rule.previous(date asked about, that date less maximumYears years)
PreviousOfAsked ==
  CalendarPrevious(rules[1], call.date, AddYears(call.date, 0 - maximumYears))

\* rule.next(previous(d), previous(d) plus maximumYears years)
NextOfPrevious ==
  CalendarNext(rules[1], PreviousOfAsked, AddYears(PreviousOfAsked, maximumYears))

PreviousThenNextAsked ==
  /\ OneCalendarRule
  /\ call.op = "matches"
  /\ maximumYears <= MaxHorizon
  /\ PreviousOfAsked # RangeErr
  /\ NextOfPrevious # RangeErr

\* C21: for a Calendar rule and a date d, next(previous(d)) is the nearest
\* date the rule matches that is not earlier than d, and no date the rule
\* matches lies between previous(d) and it
C21_NextOfPreviousIsTheNearestMatch ==
  PreviousThenNextAsked
    => /\ DayNum(NextOfPrevious) >= DayNum(call.date)
       /\ CalendarMatch(rules[1], NextOfPrevious)
       /\ \A z \in (DayNum(PreviousOfAsked) + 1)..(DayNum(NextOfPrevious) - 1) :
            ~CalendarMatch(rules[1], Midnight(z))


\* the recurrence built from the record is the one that was saved
SameRecurrence ==
  /\ call'.err = "none"
  /\ start' = start
  /\ end' = end
  /\ exceptions' = exceptions
  /\ Len(rules') = Len(rules)
  /\ \A i \in 1..Len(rules) :
       rules'[i].measure = rules[i].measure /\ rules'[i].units = rules[i].units
  /\ \A d \in SaveDates, ig \in BOOLEAN : Matches(d, ig)' = Matches(d, ig)

\* C22: a Recurrence built from the record save() returned equals the
\* original in start, end, rules and exceptions and gives the same matches()
\* result on every date; the saved record holds no from date
C22_SavedRecordRoundTrips ==
  /\ [](DOMAIN call.saved = {"start", "end", "exceptions", "rules"})
  /\ [][call'.op = "load" => SameRecurrence]_vars


\* how often a value occurs in a list
Count(seq, e) == Cardinality({i \in 1..Len(seq) : seq[i] = e})

\* the rules of one measure, in order
OfMeasure(rs, m) == SelectSeq(rs, LAMBDA r : r.measure = m)

ForgotDate(d) ==
  /\ Count(exceptions', DateOnly(d)) = 0
  /\ \A e \in InputDates : e # DateOnly(d) => Count(exceptions', e) = Count(exceptions, e)
  /\ Len(exceptions') = Len(exceptions) - Count(exceptions, DateOnly(d))
  /\ UNCHANGED <<rules, start, end>>

ForgotRule(m) ==
  /\ OfMeasure(rules', NormalizeMeasure(m)) = <<>>
  /\ \A other \in (IntervalMeasures \cup CalendarMeasures) \ {NormalizeMeasure(m)} :
       OfMeasure(rules', other) = OfMeasure(rules, other)
  /\ Len(rules') = Len(rules) - Len(OfMeasure(rules, NormalizeMeasure(m)))
  /\ UNCHANGED <<exceptions, start, end>>

\* C23: forget(d) removes every exception equal to d and nothing else;
\* forget(measure), by singular or plural name, removes the rule of that
\* measure and leaves the exceptions; forget of anything else fails with
\* InvalidForgetTarget and changes nothing
C23_ForgetRemovesExactlyItsTarget ==
  [][/\ \A d \in GivenDates : ForgetDate(d) => ForgotDate(d)
     /\ \A m \in ForgetMeasures : ForgetRule(m) => ForgotRule(m)
     /\ \A text \in {"", "toothpaste"} :
          /\ ENABLED ForgetInvalid(text)
          /\ ForgetInvalid(text) => UNCHANGED <<config, reversed>>
     /\ call'.op = "forget"
          => \/ call'.err = "InvalidForgetTarget"
             \/ \E d \in GivenDates : ForgetDate(d)
             \/ \E m \in ForgetMeasures : ForgetRule(m)]_vars

C23_ForgotAnExceptedDate ==
  /\ call.op = "forget"
  /\ call.date = Date1Late
  /\ exceptions = <<Date2>>
  /\ Len(rules) = 2


\* C24: all() on a Recurrence whose start and end are the same date returns
\* exactly one date, that date
C24_AllOfOneDayIsThatDay ==
  (call.op = "all" /\ start # NoDate /\ start = end)
    => call.err = "none" /\ call.dates = <<start>>


\* a weekday rule combined with the last week of the month by day
LastWeekdayRules ==
  /\ Len(rules) = 2
  /\ rules[1].measure = "daysOfWeek"
  /\ Len(rules[1].units) = 1
  /\ rules[2] = [measure |-> "weeksOfMonthByDay", units |-> <<0 - 1>>, anchor |-> NoDate]

\* the date falls on the weekday and no later date of its month does
IsLastWeekdayOfMonth(d, w) == Day(d) = w /\ Month(AddDays(d, 7)) # Month(d)

\* C25: with daysOfWeek [w] and weeksOfMonthByDay ["last"], the dates
\* matched are, in every month, exactly the last date of the month that
\* falls on weekday w
C25_LastMeansTheLastWeekdayOfTheMonth ==
  (LastWeekdayRules /\ call.op = "matches")
    => (call.result <=> IsLastWeekdayOfMonth(call.date, rules[1].units[1]))


\* every date returned lies on the origin's day or after it, or before it
RanForward == \A i \in 1..Len(call.dates) : DayNum(call.dates[i]) >= DayNum(Origin)

RanBackward == \A i \in 1..Len(call.dates) : DayNum(call.dates[i]) <= DayNum(Origin)

Queries == {"next", "previous", "all", "iterate", "matches"}

\* what the call that was just made returns when made once more
AskedAgain ==
  CASE call.op = "next"     -> Returned("next", call.n, Iterator(FALSE, call.n, TRUE))
    [] call.op = "previous" -> Returned("previous", call.n, Iterator(TRUE, call.n, TRUE))
    [] call.op = "all"      -> IF end = NoDate THEN Threw("all", "MissingEnd")
                               ELSE Returned("all", 0, Iterator(FALSE, 0 - 1, FALSE))
    [] call.op = "iterate"  -> Returned("iterate", call.n, Iterator(reversed, call.n, FALSE))
    [] call.op = "matches"  -> [call EXCEPT !.result = Matches(call.date, call.ignore)]

StrictlyLater(dates) == \A i \in 1..(Len(dates) - 1) : dates[i] < dates[i + 1]

StrictlyEarlier(dates) == \A i \in 1..(Len(dates) - 1) : dates[i] > dates[i + 1]

\* C28: each date of a forward enumeration is strictly later than the one
\* before it and each date of a reversed one strictly earlier, weeksOfYear
\* rules at the turn of a year included, and all() with an end date on or
\* after the origin comes to an end
C28_EnumerationMovesStrictly ==
  /\ call.op \in {"next", "all"} => StrictlyLater(call.dates)
  /\ call.op = "previous" => StrictlyEarlier(call.dates)
  /\ call.op = "iterate"
       => IF reversed THEN StrictlyEarlier(call.dates) ELSE StrictlyLater(call.dates)
  /\ call.op = "all" => call.err # ErrDiverged


\* each date is the day after (step 1) or before (step -1) the one before it
DayByDay(dates, step) ==
  \A i \in 1..(Len(dates) - 1) : DayNum(dates[i + 1]) = DayNum(dates[i]) + step

\* C29: without rules matches(d) is true for every date within the bounds
\* that is not excepted, all() returns every day from the origin to the end
\* date that is not excepted, and next(n) and previous(n) return consecutive
\* days, none of them raising an error
C29_NoRulesMeansEveryDay ==
  rules = <<>>
    => /\ \A d \in GivenDates :
            (WithinBounds(DateOnly(d)) /\ ~Excepted(d)) => Matches(d, FALSE)
       /\ (call.op = "all" /\ end # NoDate /\ OriginInRange)
            => /\ call.err = "none"
               /\ call.dates = Ascending({z \in DayNum(Origin)..DayNum(end) :
                                            ~Excepted(Midnight(z))})
       /\ (call.op = "next" /\ OriginInRange)
            => /\ call.err = "none"
               /\ exceptions = <<>> => DayByDay(call.dates, 1)
       /\ (call.op = "previous" /\ OriginInRange)
            => /\ call.err = "none"
               /\ exceptions = <<>> => DayByDay(call.dates, 0 - 1)


\* C30: in every state reached from construction by every and forget calls,
\* a weeksOfMonthByDay rule is present only if a daysOfWeek rule is too
C30_WeeksOfMonthByDayNeedsDaysOfWeek ==
  HasRule("weeksOfMonthByDay") => HasRule("daysOfWeek")

=============================================================================
